---- MODULE Spec2Model ----
(***************************************************************************)
(* commit-size-distribution.py: the numstat parser of uncached_git_numstat *)
(* and the file cache of git_numstat.                                      *)
(*                                                                         *)
(*   SpecParse  the parsing loop of uncached_git_numstat, line by line,    *)
(*              over every bounded stream of lines                         *)
(*   SpecSeq    one process calling git_numstat again and again            *)
(*   Spec       two processes calling git_numstat concurrently             *)
(*   SpecMain   main from the table git_numstat returned on                *)
(***************************************************************************)
EXTENDS Integers, Sequences, FiniteSets, TLC

VARIABLES parse, HEAD, fs, proc, prev, main

vars == <<parse, HEAD, fs, proc, prev, main>>

(***************************************************************************)
(* Bounds                                                                  *)
(***************************************************************************)
\* longest generated stream of lines
MaxLines == 4
\* calls of git_numstat one process makes
MaxCalls == 3
\* head revisions the repository goes through
MaxHead == 2
\* rows of the tables main is entered with
MaxRows == 2

(***************************************************************************)
(* Bytes of a line.  A line is a sequence of tokens: a run of whitespace,  *)
(* a decimal literal, 40 lowercase hexadecimal characters, or another word.*)
(***************************************************************************)
Num(n) == [k |-> "int", n |-> n, s |-> ""]
Word(s) == [k |-> "word", n |-> 0, s |-> s]
Hex40(s) == [k |-> "hex40", n |-> 0, s |-> s]
WS == [k |-> "ws", n |-> 0, s |-> "\t"]
DASH == Word("-")

\* bytes.split(): the maximal runs of non-whitespace
split(line) == SelectSeq(line, LAMBDA t : t.k # "ws")

\* re.fullmatch(b"[a-f0-9]{40}", line)
fullmatch(line) == Len(line) = 1 /\ line[1].k = "hex40"

\* int(b) succeeds on a decimal literal (a sign is allowed); else ValueError
IsIntLiteral(t) == t.k = "int"
int(t) == t.n

(***************************************************************************)
(* The parsing loop of uncached_git_numstat                                *)
(***************************************************************************)
NewLoop(stdout) ==
    [stdout |-> stdout, i |-> 1, a |-> 0, r |-> 0, c |-> 0,
     added |-> <<>>, removed |-> <<>>, changed |-> <<>>,
     pc |-> "for", exc |-> "", df |-> <<>>]

Raise(st, e) == [st EXCEPT !.pc = "raised", !.exc = e]

\* a commit line: record the running sums, then reset them
Emit(st) ==
    [st EXCEPT !.added = Append(@, st.a),
               !.removed = Append(@, st.r),
               !.changed = Append(@, st.c),
               !.a = 0, !.r = 0, !.c = 0]

\* Accumulate with c = a + r taken before r is updated
Accumulate_StaleChanged(st, stat) ==
    IF ~IsIntLiteral(stat[1]) THEN Raise(st, "ValueError")
    ELSE LET s1 == [st EXCEPT !.a = @ + int(stat[1])] IN
         IF Len(stat) < 2 THEN Raise(s1, "IndexError")
         ELSE IF ~IsIntLiteral(stat[2]) THEN Raise(s1, "ValueError")
         ELSE [s1 EXCEPT !.c = s1.a + s1.r, !.r = @ + int(stat[2])]

\* a += int(stat[0]); r += int(stat[1]); c = a + r
Accumulate(st, stat) ==
    IF ~IsIntLiteral(stat[1]) THEN Raise(st, "ValueError")
    ELSE LET s1 == [st EXCEPT !.a = @ + int(stat[1])] IN
         IF Len(stat) < 2 THEN Raise(s1, "IndexError")
         ELSE IF ~IsIntLiteral(stat[2]) THEN Raise(s1, "ValueError")
         ELSE LET s2 == [s1 EXCEPT !.r = @ + int(stat[2])] IN
              [s2 EXCEPT !.c = s2.a + s2.r]

\* LoopBody with the binary marker read as a count of 0, field by field
LoopBody_DashAsZero(st, line) ==
    IF fullmatch(line) THEN Emit(st)
    ELSE LET stat == split(line)
             zero(t) == IF t = DASH THEN Num(0) ELSE t
         IN  IF Len(stat) = 0 THEN st
             ELSE Accumulate(st, [k \in 1..Len(stat) |-> zero(stat[k])])

\* one iteration of the for loop
LoopBody(st, line) ==
    IF fullmatch(line) THEN Emit(st)
    ELSE LET stat == split(line) IN
         IF Len(stat) = 0 THEN st
         ELSE IF stat[1] = DASH THEN st
         ELSE Accumulate(st, stat)

\* the list as it is, the record at index 0 kept
Slice1_Keep(l) == l

\* list[1:]
Slice1(l) == IF l = <<>> THEN <<>> ELSE Tail(l)

\* pd.DataFrame({"added": ..., "removed": ..., "changed": ...}): one row per index
DataFrame(added, removed, changed) ==
    [k \in 1..Len(added) |->
        [added |-> added[k], removed |-> removed[k], changed |-> changed[k]]]

\* the return statement
Return(st) ==
    [st EXCEPT !.pc = "returned",
               !.df = DataFrame(Slice1(st.added), Slice1(st.removed), Slice1(st.changed))]

\* the loop taken one line further
Step(st) ==
    LET n == LoopBody(st, st.stdout[st.i]) IN
    IF n.pc = "raised" THEN n ELSE [n EXCEPT !.i = @ + 1]

\* the whole loop and the return: the state uncached_git_numstat ends in
RECURSIVE RunLoop(_)
RunLoop(st) ==
    IF st.pc # "for" THEN st
    ELSE IF st.i > Len(st.stdout) THEN Return(st)
    ELSE RunLoop(Step(st))

(***************************************************************************)
(* Streams of lines                                                        *)
(***************************************************************************)
HeaderA == <<Hex40("A")>>
HeaderB == <<Hex40("B")>>
Blank == <<>>
Stat(x, y, path) == <<Num(x), WS, Num(y), WS, Word(path)>>
Binary(path) == <<DASH, WS, DASH, WS, Word(path)>>

Lines ==
    { HeaderA, Blank, Stat(10, 2, "fileA"), Stat(5, 0, "fileB"),
      Binary("image.png"),
      <<Word("garbage")>>,                      \* no integer in the first field
      <<Num(7)>>,                               \* a single field
      <<Num(3), WS, DASH, WS, Word("f")>>,      \* binary marker in the second field alone
      <<DASH, WS, Num(4), WS, Word("g")>>,      \* binary marker in the first field alone
      Stat(-3, 1, "neg") }                      \* a negative count

ExampleStream ==
    << HeaderA, Blank, Stat(10, 2, "fileA"),
       HeaderB, Blank, Binary("image.png"), Stat(5, 0, "fileB") >>

Streams == UNION { [1..n -> Lines] : n \in 0..MaxLines } \cup { ExampleStream }

(***************************************************************************)
(* Python values of the --after / --before arguments                       *)
(***************************************************************************)
None == [t |-> "NoneType", s |-> ""]
PyStr(s) == [t |-> "str", s |-> s]

\* str(x)
str(x) == IF x.t = "NoneType" THEN "None" ELSE x.s

\* the truth value of x in "if x:"
truthy(x) == x.t = "str" /\ x.s # ""

(***************************************************************************)
(* The repository                                                          *)
(***************************************************************************)
Repository == "r"

\* the commit HEAD names after h - 1 commits were added
Rev(h) == "c" \o ToString(h)

\* stdout of "git rev-parse HEAD": the revision and a newline
RevParseStdout(h) == Rev(h) \o "\n"

\* stdout of "git log --no-merges --format=%H --numstat" at head h, newest first
RECURSIVE LogStdout(_)
LogStdout(h) ==
    IF h <= 1 THEN ExampleStream
    ELSE <<<<Hex40(Rev(h))>>, Blank, Stat(h, 1, "file")>> \o LogStdout(h - 1)

(***************************************************************************)
(* cachefile_name                                                          *)
(***************************************************************************)
\* hashlib.sha256 over the updates, taken as collision free: two digests are
\* equal exactly when the concatenated bytes fed to them are equal
RECURSIVE hexdigest(_)
hexdigest(updates) ==
    IF updates = <<>> THEN "" ELSE Head(updates) \o hexdigest(Tail(updates))

\* os.path.basename(os.path.relpath(repository)), for a repository named by
\* one path component below the working directory
basename_relpath(repository) == repository

\* a path is the sequence of its components
cachefile_name(repository, after, before, head_rev_stdout) ==
    LET key == hexdigest(<<repository, head_rev_stdout, str(after), str(before)>>)
                 \o ".csv"
    IN  <<"tmp", "commit-size-distribution", basename_relpath(repository), key>>

dirname(path) == SubSeq(path, 1, Len(path) - 1)

(***************************************************************************)
(* The csv file of a table.  A file holds the header line (the column      *)
(* names, <<>> while nothing is flushed yet) and the rows flushed so far.  *)
(***************************************************************************)
EmptyFile == [columns |-> <<>>, rows |-> <<>>]

\* DataFrame.to_csv: the index is written as the first, unnamed column
to_csv(df) ==
    [columns |-> <<"", "added", "removed", "changed">>,
     rows |-> [k \in 1..Len(df) |->
                 <<k - 1, df[k].added, df[k].removed, df[k].changed>>]]

\* the first n lines of a file being written (line 1 is the header)
Flushed(file, n) ==
    IF n = 0 THEN EmptyFile
    ELSE [columns |-> file.columns, rows |-> SubSeq(file.rows, 1, n - 1)]

NumLines(file) == 1 + Len(file.rows)

\* read_csv without index_col=0: the written index comes back as a data column
read_csv_NoIndexCol(file) ==
    [k \in 1..Len(file.rows) |->
        [unnamed0 |-> file.rows[k][1],
         added |-> file.rows[k][2], removed |-> file.rows[k][3],
         changed |-> file.rows[k][4]]]

\* pd.read_csv(cachefile, index_col=0): column 0 becomes the index
read_csv(file) ==
    [k \in 1..Len(file.rows) |->
        [added |-> file.rows[k][2], removed |-> file.rows[k][3],
         changed |-> file.rows[k][4]]]

\* pd.read_csv raises EmptyDataError on a file without a header line
Unreadable(file) == file.columns = <<>>

(***************************************************************************)
(* git_numstat, one process                                                *)
(***************************************************************************)
Procs == {1, 2}

Idle ==
    [pc |-> "idle", n |-> 0, after |-> None, before |-> None,
     head_rev |-> "", cachefile |-> <<>>, cmd |-> <<>>, returncode |-> 0,
     res |-> <<>>, k |-> 0, ret |-> <<>>, exc |-> "",
     path |-> "", wrote |-> FALSE]

Finished(st) == st.pc \in {"idle", "returned", "raised"}

\* git_numstat(repository, after, before) is entered
Enter(st, after, before) ==
    [Idle EXCEPT !.pc = "rev_parse", !.n = st.n + 1,
                 !.after = after, !.before = before]

\* cachefile = cachefile_name(repository, after, before)
NameCachefile(st, head) ==
    [st EXCEPT !.pc = "exists",
               !.head_rev = RevParseStdout(head),
               !.cachefile = cachefile_name(Repository, st.after, st.before,
                                            RevParseStdout(head))]

\* os.path.exists(cachefile)
exists(files, path) == path \in DOMAIN files

\* if os.path.exists(cachefile): ... else: ...
Branch(st, files) ==
    IF exists(files, st.cachefile)
    THEN [st EXCEPT !.pc = "read_csv", !.path = "hit"]
    ELSE [st EXCEPT !.pc = "build_cmd", !.path = "miss"]

\* return pd.read_csv(cachefile, index_col=0, parse_dates=False)
Hit(st, files) ==
    IF Unreadable(files[st.cachefile]) THEN Raise(st, "EmptyDataError")
    ELSE [st EXCEPT !.pc = "returned", !.ret = read_csv(files[st.cachefile])]

BaseCmd(repository) ==
    <<"git", "-C", repository, "log", "--no-merges", "--format=%H", "--numstat">>

\* list.append takes exactly one argument: cmd.append("--after", after) raises
\* TypeError and leaves cmd as it is
append2(st, flag, value) == Raise(st, "TypeError")

\* cmd = [...]; if after: cmd.append("--after", after);
\* if before: cmd.append("--before", before)
BuildCmd(st) ==
    LET s0 == [st EXCEPT !.cmd = BaseCmd(Repository), !.pc = "run"]
        s1 == IF truthy(s0.after) THEN append2(s0, "--after", s0.after) ELSE s0
    IN  IF s1.pc = "raised" THEN s1
        ELSE IF truthy(s1.before) THEN append2(s1, "--before", s1.before)
        ELSE s1

\* subprocess_run without check=True: the exit status is ignored
subprocess_run_NoCheck(st, returncode, stdout) ==
    LET s0 == [st EXCEPT !.returncode = returncode]
        end == RunLoop(NewLoop(stdout))
    IN  IF end.pc = "raised" THEN Raise(s0, end.exc)
        ELSE [s0 EXCEPT !.pc = "makedirs", !.res = end.df]

\* subprocess.run(cmd, stdout=PIPE, stderr=PIPE, check=True), then the parsing
\* loop over res.stdout.splitlines() and the return of the DataFrame
subprocess_run(st, returncode, stdout) ==
    LET s0 == [st EXCEPT !.returncode = returncode] IN
    IF returncode # 0 THEN Raise(s0, "CalledProcessError")
    ELSE LET end == RunLoop(NewLoop(stdout)) IN
         IF end.pc = "raised" THEN Raise(s0, end.exc)
         ELSE [s0 EXCEPT !.pc = "makedirs", !.res = end.df]

\* Truncate with the cache started afresh: the other files are gone
Truncate_Wipe(files, path) == [x \in {path} |-> EmptyFile]

\* the file cachefile after to_csv opened it for writing: created or truncated
Truncate(files, path) ==
    [x \in DOMAIN files \cup {path} |-> IF x = path THEN EmptyFile ELSE files[x]]

\* the file after the next line of res.to_csv(cachefile) reached it
FlushLine(files, path, file, n) ==
    [files EXCEPT ![path] = Flushed(file, n)]

(***************************************************************************)
(* main, from the table of git_numstat on                                  *)
(***************************************************************************)
\* args.max_size: None, or the int argparse made of --max-size
NoSize == [t |-> "NoneType", n |-> 0]
PyInt(n) == [t |-> "int", n |-> n]

\* the truth value of args.max_size in "if args.max_size:"
truthy_int(x) == x.t = "int" /\ x.n # 0

\* df.changed
Column(df, name) == [k \in 1..Len(df) |-> df[k][name]]

\* Series.max(): the largest value, NaN for an empty series
RECURSIVE series_max(_)
series_max(col) ==
    IF col = <<>> THEN [nan |-> TRUE, v |-> 0]
    ELSE LET rest == series_max(Tail(col)) IN
         IF rest.nan \/ Head(col) >= rest.v
         THEN [nan |-> FALSE, v |-> Head(col)] ELSE rest

\* min(a, m) of Python: m when m < a, else a; no comparison with NaN is true
pymin(a, m) == IF ~m.nan /\ m.v < a THEN m.v ELSE a

NoRange == [none |-> TRUE, lo |-> 0, hi |-> 0]

NewMain(df, max_size) ==
    [pc |-> "x_range", df |-> df, max_size |-> max_size, x_range |-> NoRange,
     hist |-> FALSE, bins |-> 0, exc |-> "",
     sorted |-> <<>>, x |-> 0, cdf |-> [num |-> 0, den |-> 1]]

MainIdle == [NewMain(<<>>, NoSize) EXCEPT !.pc = "idle"]

\* SetXRange with the bound taken as it is
SetXRange_NoMin(m) ==
    [m EXCEPT !.pc = "hist",
              !.x_range = IF truthy_int(m.max_size)
                          THEN [none |-> FALSE, lo |-> 0, hi |-> m.max_size.n]
                          ELSE NoRange]

\* x_range = None; if args.max_size: x_range = (0, min(args.max_size, df.changed.max()))
SetXRange(m) ==
    [m EXCEPT !.pc = "hist",
              !.x_range = IF truthy_int(m.max_size)
                          THEN [none |-> FALSE, lo |-> 0,
                                hi |-> pymin(m.max_size.n,
                                             series_max(Column(m.df, "changed")))]
                          ELSE NoRange]

\* ax.hist([df.added, df.removed, df.changed], bins=len(df.changed), ...,
\* range=x_range, cumulative=-1): with bins = 0 the histogram of the library
\* raises ValueError
ax_hist(m) ==
    LET bins == Len(Column(m.df, "changed"))
        s0 == [m EXCEPT !.hist = TRUE, !.bins = bins]
    IN  IF bins = 0 THEN [s0 EXCEPT !.pc = "raised", !.exc = "ValueError"]
        ELSE [s0 EXCEPT !.pc = "plotted"]

\* the values in ascending order
RECURSIVE sorted(_)
sorted(values) ==
    IF values = <<>> THEN <<>>
    ELSE LET rest == sorted(Tail(values))
             lower == SelectSeq(rest, LAMBDA v : v <= Head(values))
             upper == SelectSeq(rest, LAMBDA v : v > Head(values))
         IN  lower \o <<Head(values)>> \o upper

\* cdf with the values below x counted, those equal to x left out
cdf_Strict(sorted_values, x) ==
    [num |-> Cardinality({i \in 1..Len(sorted_values) : sorted_values[i] < x}),
     den |-> Len(sorted_values)]

\* cdf(sorted_values, x): count(v <= x) / len(sorted_values), as a fraction
cdf(sorted_values, x) ==
    [num |-> Cardinality({i \in 1..Len(sorted_values) : sorted_values[i] <= x}),
     den |-> Len(sorted_values)]

\* the cdf of the changed column at x; EmptyDistributionError on an empty table
tabulate(m, x) ==
    IF Len(m.df) = 0
    THEN [m EXCEPT !.pc = "raised", !.exc = "EmptyDistributionError"]
    ELSE LET values == sorted(Column(m.df, "changed")) IN
         [m EXCEPT !.pc = "tabulated", !.sorted = values, !.x = x,
                   !.cdf = cdf(values, x)]

\* the tables and bounds main is entered with
Counts == {0, 2, 5}

Records ==
    { [added |-> x, removed |-> y, changed |-> x + y] : x \in Counts, y \in Counts }

Tables == UNION { [1..n -> Records] : n \in 0..MaxRows }

MaxSizes == {NoSize, PyInt(0), PyInt(3), PyInt(7), PyInt(20)}

Queries == (-1)..11

(***************************************************************************)
(* State                                                                   *)
(***************************************************************************)
\* no call is in progress, the cache directory does not exist yet
Init ==
    /\ HEAD = 1
    /\ fs = [dirs |-> {}, files |-> <<>>]
    /\ proc = [p \in Procs |-> Idle]
    /\ prev = [p \in Procs |-> Idle]
    /\ parse = NewLoop(<<>>)
    /\ main = MainIdle

Afters == {None, PyStr(""), PyStr("1"), PyStr("11")}
Befores == {None, PyStr(""), PyStr("2"), PyStr("12")}

(***************************************************************************)
(* Actions of git_numstat                                                  *)
(***************************************************************************)
Call(p, after, before) ==
    /\ Finished(proc[p])
    /\ proc[p].n < MaxCalls
    /\ proc' = [proc EXCEPT ![p] = Enter(proc[p], after, before)]
    /\ prev' = [prev EXCEPT ![p] = proc[p]]
    /\ UNCHANGED <<main, parse, HEAD, fs>>

RevParse(p) ==
    /\ proc[p].pc = "rev_parse"
    /\ proc' = [proc EXCEPT ![p] = NameCachefile(proc[p], HEAD)]
    /\ UNCHANGED <<main, parse, HEAD, fs, prev>>

Exists(p) ==
    /\ proc[p].pc = "exists"
    /\ proc' = [proc EXCEPT ![p] = Branch(proc[p], fs.files)]
    /\ UNCHANGED <<main, parse, HEAD, fs, prev>>

ReadCsv(p) ==
    /\ proc[p].pc = "read_csv"
    /\ proc' = [proc EXCEPT ![p] = Hit(proc[p], fs.files)]
    /\ UNCHANGED <<main, parse, HEAD, fs, prev>>

Cmd(p) ==
    /\ proc[p].pc = "build_cmd"
    /\ proc' = [proc EXCEPT ![p] = BuildCmd(proc[p])]
    /\ UNCHANGED <<main, parse, HEAD, fs, prev>>

\* git log exits 0 with the history reachable from the head of that moment
GitLog(p) ==
    /\ proc[p].pc = "run"
    /\ proc' = [proc EXCEPT ![p] = subprocess_run(proc[p], 0, LogStdout(HEAD))]
    /\ UNCHANGED <<main, parse, HEAD, fs, prev>>

\* git log exits non-zero
GitLogFails(p) ==
    /\ proc[p].pc = "run"
    /\ proc' = [proc EXCEPT ![p] = subprocess_run(proc[p], 128, <<>>)]
    /\ UNCHANGED <<main, parse, HEAD, fs, prev>>

\* os.makedirs(os.path.dirname(cachefile), exist_ok=True)
Makedirs(p) ==
    /\ proc[p].pc = "makedirs"
    /\ fs' = [fs EXCEPT !.dirs = @ \cup {dirname(proc[p].cachefile)}]
    /\ proc' = [proc EXCEPT ![p].pc = "open", ![p].wrote = TRUE]
    /\ UNCHANGED <<main, parse, HEAD, prev>>

\* res.to_csv(cachefile) opens the file
Open(p) ==
    /\ proc[p].pc = "open"
    /\ fs' = [fs EXCEPT !.files = Truncate(@, proc[p].cachefile)]
    /\ proc' = [proc EXCEPT ![p].pc = "write", ![p].k = 0]
    /\ UNCHANGED <<main, parse, HEAD, prev>>

\* res.to_csv(cachefile) writes the next line; after the last one, return res
Write(p) ==
    /\ proc[p].pc = "write"
    /\ LET file == to_csv(proc[p].res)
           k == proc[p].k + 1
       IN  /\ fs' = [fs EXCEPT !.files =
                        FlushLine(@, proc[p].cachefile, file, k)]
           /\ proc' = [proc EXCEPT ![p] =
                        IF k = NumLines(file)
                        THEN [@ EXCEPT !.k = k, !.pc = "returned", !.ret = proc[p].res]
                        ELSE [@ EXCEPT !.k = k]]
    /\ UNCHANGED <<main, parse, HEAD, prev>>

\* a commit is added to the repository
Commit ==
    /\ HEAD < MaxHead
    /\ HEAD' = HEAD + 1
    /\ UNCHANGED <<main, parse, fs, proc, prev>>

Run(p) ==
    \/ RevParse(p) \/ Exists(p) \/ ReadCsv(p) \/ Cmd(p)
    \/ GitLog(p) \/ GitLogFails(p) \/ Makedirs(p) \/ Open(p) \/ Write(p)

\* one process, any arguments
NextSeq ==
    \/ \E after \in Afters, before \in Befores : Call(1, after, before)
    \/ Run(1)
    \/ Commit

SpecSeq == Init /\ [][NextSeq]_vars

\* two processes, unbounded range or a lower bound
Next ==
    \/ \E p \in Procs, after \in {None, PyStr("1")} : Call(p, after, None)
    \/ \E p \in Procs : Run(p)
    \/ Commit

Spec == Init /\ [][Next]_vars

(***************************************************************************)
(* Actions of the parsing loop, one per kind of line                       *)
(***************************************************************************)
AtLine == parse.pc = "for" /\ parse.i <= Len(parse.stdout)

Line == parse.stdout[parse.i]

CommitLine ==
    /\ AtLine /\ fullmatch(Line)
    /\ parse' = Step(parse)
    /\ UNCHANGED <<main, HEAD, fs, proc, prev>>

EmptyLine ==
    /\ AtLine /\ ~fullmatch(Line) /\ Len(split(Line)) = 0
    /\ parse' = Step(parse)
    /\ UNCHANGED <<main, HEAD, fs, proc, prev>>

BinaryLine ==
    /\ AtLine /\ ~fullmatch(Line) /\ Len(split(Line)) > 0
    /\ split(Line)[1] = DASH
    /\ parse' = Step(parse)
    /\ UNCHANGED <<main, HEAD, fs, proc, prev>>

StatLine ==
    /\ AtLine /\ ~fullmatch(Line) /\ Len(split(Line)) > 0
    /\ split(Line)[1] # DASH
    /\ Step(parse).pc # "raised"
    /\ parse' = Step(parse)
    /\ UNCHANGED <<main, HEAD, fs, proc, prev>>

BadLine ==
    /\ AtLine /\ ~fullmatch(Line) /\ Len(split(Line)) > 0
    /\ split(Line)[1] # DASH
    /\ Step(parse).pc = "raised"
    /\ parse' = Step(parse)
    /\ UNCHANGED <<main, HEAD, fs, proc, prev>>

EndOfStream ==
    /\ parse.pc = "for" /\ parse.i > Len(parse.stdout)
    /\ parse' = Return(parse)
    /\ UNCHANGED <<main, HEAD, fs, proc, prev>>

NextParse ==
    \/ CommitLine \/ EmptyLine \/ BinaryLine \/ StatLine \/ BadLine
    \/ EndOfStream

\* the loop is entered with any stream as res.stdout.splitlines()
InitParse ==
    /\ HEAD = 1
    /\ fs = [dirs |-> {}, files |-> <<>>]
    /\ proc = [p \in Procs |-> Idle]
    /\ prev = [p \in Procs |-> Idle]
    /\ parse \in { NewLoop(s) : s \in Streams }
    /\ main = MainIdle

SpecParse == InitParse /\ [][NextParse]_vars

(***************************************************************************)
(* Actions of main                                                         *)
(***************************************************************************)
XRange ==
    /\ main.pc = "x_range"
    /\ main' = SetXRange(main)
    /\ UNCHANGED <<parse, HEAD, fs, proc, prev>>

Hist ==
    /\ main.pc = "hist" /\ ax_hist(main).pc = "plotted"
    /\ main' = ax_hist(main)
    /\ UNCHANGED <<parse, HEAD, fs, proc, prev>>

HistRaises ==
    /\ main.pc = "hist" /\ ax_hist(main).pc = "raised"
    /\ main' = ax_hist(main)
    /\ UNCHANGED <<parse, HEAD, fs, proc, prev>>

Tabulate(x) ==
    /\ main.pc = "x_range"
    /\ main' = tabulate(main, x)
    /\ UNCHANGED <<parse, HEAD, fs, proc, prev>>

NextMain ==
    \/ XRange \/ Hist \/ HistRaises
    \/ \E x \in Queries : Tabulate(x)

\* main holds the table git_numstat returned
InitMain ==
    /\ HEAD = 1
    /\ fs = [dirs |-> {}, files |-> <<>>]
    /\ proc = [p \in Procs |-> Idle]
    /\ prev = [p \in Procs |-> Idle]
    /\ parse = NewLoop(<<>>)
    /\ main \in { NewMain(df, max_size) : df \in Tables, max_size \in MaxSizes }

SpecMain == InitMain /\ [][NextMain]_vars

(***************************************************************************)
(* Properties of the parsing loop (SpecParse)                              *)
(***************************************************************************)
Parsed == parse.pc = "returned"

\* the indices of the commit-identifier lines of a stream
CommitLines(s) == { i \in 1..Len(s) : fullmatch(s[i]) }

IsCountLine(l) ==
    /\ ~fullmatch(l) /\ Len(split(l)) = 3
    /\ IsIntLiteral(split(l)[1]) /\ split(l)[1].n >= 0
    /\ IsIntLiteral(split(l)[2]) /\ split(l)[2].n >= 0

IsBinaryLine(l) ==
    ~fullmatch(l) /\ Len(split(l)) = 3 /\ split(l)[1] = DASH /\ split(l)[2] = DASH

\* header line, blank line, numstat lines, block after block
WellFormed(s) ==
    /\ Len(s) > 0 => fullmatch(s[1])
    /\ \A i \in 1..Len(s) :
        IF fullmatch(s[i]) THEN i < Len(s) /\ s[i + 1] = Blank
        ELSE IF s[i] = Blank THEN fullmatch(s[i - 1])
        ELSE IsCountLine(s[i]) \/ IsBinaryLine(s[i])

\* the index of the header of the k-th block
RECURSIVE HeaderOf(_, _)
HeaderOf(s, k) ==
    LET H == CommitLines(s)
        first == CHOOSE i \in H : \A j \in H : i <= j
    IN  IF k = 1 THEN first
        ELSE first + HeaderOf(SubSeq(s, first + 1, Len(s)), k - 1)

\* the lines of the k-th block, its header excluded
BlockLines(s, k) ==
    LET n == Cardinality(CommitLines(s))
        from == HeaderOf(s, k) + 1
        to == IF k < n THEN HeaderOf(s, k + 1) - 1 ELSE Len(s)
    IN  SubSeq(s, from, to)

\* the sum of field f of the non-binary numstat lines
RECURSIVE FieldSum(_, _)
FieldSum(ls, f) ==
    IF ls = <<>> THEN 0
    ELSE (IF IsCountLine(Head(ls)) THEN split(Head(ls))[f].n ELSE 0)
         + FieldSum(Tail(ls), f)

BlockRecord(s, k) ==
    LET x == FieldSum(BlockLines(s, k), 1)
        y == FieldSum(BlockLines(s, k), 2)
    IN  [added |-> x, removed |-> y, changed |-> x + y]

\* C1: a stream with N commit-identifier lines yields a table of exactly N
\* records (stated as the claim states it; the code returns N - 1)
C1_OneRecordPerCommitLine ==
    Parsed => Len(parse.df) = Cardinality(CommitLines(parse.stdout))

\* C2: for a well-formed stream the k-th record holds the sums of the k-th
\* block, for every block, and the example stream yields (10, 2, 12), (5, 0, 5)
C2_RecordsAreBlockSums ==
    /\ (Parsed /\ WellFormed(parse.stdout)) =>
          LET n == Cardinality(CommitLines(parse.stdout)) IN
          \A k \in 1..n :
              /\ k <= Len(parse.df)
              /\ parse.df[k] = BlockRecord(parse.stdout, k)
    /\ (Parsed /\ parse.stdout = ExampleStream) =>
          parse.df = << [added |-> 10, removed |-> 2, changed |-> 12],
                        [added |-> 5, removed |-> 0, changed |-> 5] >>

\* no count field that is read is negative
CountsNonNegative(s) ==
    \A i \in 1..Len(s) : \A f \in 1..2 :
        (f <= Len(split(s[i])) /\ IsIntLiteral(split(s[i])[f]))
            => split(s[i])[f].n >= 0

\* C3: every record of a returned table has changed = added + removed and no
\* negative field, when no count field of the stream is negative
C3_RecordInvariant ==
    (Parsed /\ CountsNonNegative(parse.stdout)) =>
        \A k \in 1..Len(parse.df) :
            /\ parse.df[k].changed = parse.df[k].added + parse.df[k].removed
            /\ parse.df[k].added >= 0
            /\ parse.df[k].removed >= 0
            /\ parse.df[k].changed >= 0

\* a table was returned whose record sums counted lines next to a binary line
C3_Witness ==
    /\ Parsed /\ CountsNonNegative(parse.stdout)
    /\ \E i \in 1..Len(parse.stdout) : IsBinaryLine(parse.stdout[i])
    /\ \E k \in 1..Len(parse.df) :
          parse.df[k].added > 0 /\ parse.df[k].removed > 0

\* C9: a line that does not split into the numstat fields is skipped: no line
\* makes the loop abort (stated as the claim states it; the code raises)
C9_MalformedLineSkipped ==
    /\ parse.pc # "raised"
    /\ Parsed => parse.i > Len(parse.stdout)

(***************************************************************************)
(* Properties of sequential calls (SpecSeq)                                *)
(***************************************************************************)
cur == proc[1]
old == prev[1]

SameArguments(x, y) == x.after = y.after /\ x.before = y.before

\* the call before this one returned a table, and this one has the same
\* arguments and has read the same head
Repeated ==
    /\ old.pc = "returned"
    /\ SameArguments(cur, old) /\ cur.head_rev = old.head_rev

\* C4: of two calls in sequence with the same arguments and head, the second
\* is a hit that builds no history query, and it returns the table the first
\* returned
C4_CacheRoundTrip ==
    (Repeated /\ cur.path # "") =>
        /\ cur.path = "hit" /\ cur.cmd = <<>> /\ cur.returncode = 0
        /\ ~(old.path = "miss" /\ cur.path = "miss")
        /\ Finished(cur) => (cur.pc = "returned" /\ cur.ret = old.ret)

\* the first call computed and persisted a table with rows, the second hit it
C4_Witness ==
    /\ Repeated /\ old.path = "miss" /\ cur.path = "hit"
    /\ cur.pc = "returned" /\ Len(cur.ret) >= 1

\* the calls of which the cache file name is known
Named(x) == x.cachefile # <<>>

\* C5: with repository and head fixed, distinct (after, before) pairs get
\* distinct cache file names (stated as the claim states it)
C5_DistinctRangesDistinctKeys ==
    (Named(cur) /\ Named(old) /\ cur.head_rev = old.head_rev
        /\ ~SameArguments(cur, old))
    => cur.cachefile # old.cachefile

\* flag followed by value occurs in the command line
Forwards(cmd, flag, value) ==
    \E i \in 1..(Len(cmd) - 1) : cmd[i] = flag /\ cmd[i + 1] = value

Mentions(cmd, flag) == \E i \in 1..Len(cmd) : cmd[i] = flag

\* the call is past the construction of the command line
CmdBuilt(x) == x.path = "miss" /\ x.pc # "build_cmd"

\* C6: on a miss each supplied bound is forwarded to the history query, which
\* then runs; an absent bound is omitted (stated as the claim states it)
C6_BoundsForwarded ==
    CmdBuilt(cur) =>
        /\ truthy(cur.after) => Forwards(cur.cmd, "--after", cur.after.s)
        /\ truthy(cur.before) => Forwards(cur.cmd, "--before", cur.before.s)
        /\ (truthy(cur.after) \/ truthy(cur.before)) => cur.exc # "TypeError"
        /\ cur.after = None => ~Mentions(cur.cmd, "--after")
        /\ cur.before = None => ~Mentions(cur.cmd, "--before")

\* C7: a call whose history query exits non-zero ends in CalledProcessError
\* and has created nothing: the entry of its key does not exist, so the next
\* call with that key misses and builds the query again
C7_FailedQueryAtomic ==
    /\ cur.returncode # 0 =>
          /\ cur.pc = "raised" /\ cur.exc = "CalledProcessError"
          /\ ~cur.wrote
          /\ ~exists(fs.files, cur.cachefile)
    /\ (old.returncode # 0 /\ cur.cachefile = old.cachefile
            /\ cur.path # "")
       => /\ cur.path = "miss"
          /\ cur.pc # "build_cmd" =>
                (cur.cmd = BaseCmd(Repository) /\ cur.exc # "TypeError")

\* after a failed query the next call with the same key ran the query itself
C7_Witness ==
    /\ old.returncode # 0 /\ old.exc = "CalledProcessError"
    /\ cur.cachefile = old.cachefile
    /\ cur.pc = "returned" /\ cur.path = "miss" /\ Len(cur.ret) >= 1

(***************************************************************************)
(* Properties of concurrent calls (Spec)                                   *)
(***************************************************************************)
\* the table uncached_git_numstat computes at head h
Computed(h) == RunLoop(NewLoop(LogStdout(h))).df

\* C8: an entry that exists but cannot be read is treated as a miss: the call
\* recomputes and no error of the cache layer reaches the caller (stated as
\* the claim states it; the code lets EmptyDataError through)
C8_UnreadableEntryIsMiss ==
    \A p \in Procs :
        /\ proc[p].exc # "EmptyDataError"
        /\ proc[p].pc = "raised" => proc[p].path = "miss"

\* C10: whatever the interleaving of two calls with the same key, a call that
\* returns, returns a complete table, never a partially written entry, and
\* once both have returned the entry holds the table each returned (stated as
\* the claim states it)
C10_BenignRace ==
    \A p \in Procs, q \in Procs :
        (p # q /\ proc[p].cachefile = proc[q].cachefile
            /\ proc[p].pc = "returned")
        => /\ \E h \in 1..MaxHead : proc[p].ret = Computed(h)
           /\ proc[q].pc = "returned" =>
                 fs.files[proc[p].cachefile] = to_csv(proc[p].ret)

(***************************************************************************)
(* Entries and the head they are named after (SpecSeq)                     *)
(***************************************************************************)
\* a call is inside res.to_csv(cachefile) for this file
Writing(path) ==
    \E p \in Procs : proc[p].pc = "write" /\ proc[p].cachefile = path

\* C11: every persisted entry whose name is derived from head h holds the
\* table of the history reachable from h, also when the head advances during
\* a call (stated as the claim states it; entries still being written are
\* left aside)
C11_EntryHoldsTableOfItsHead ==
    \A h \in 1..MaxHead : \A after \in Afters, before \in Befores :
        LET path == cachefile_name(Repository, after, before, RevParseStdout(h))
        IN  (exists(fs.files, path) /\ ~Writing(path))
                => fs.files[path] = to_csv(Computed(h))

(***************************************************************************)
(* Properties of main (SpecMain)                                           *)
(***************************************************************************)
\* C12: on an empty table main ends in an empty-distribution error before any
\* distribution is computed: ax.hist is never called with an empty series
\* (stated as the claim states it; the code calls ax.hist with bins = 0)
C12_EmptyTableRejected ==
    Len(main.df) = 0 =>
        /\ ~main.hist
        /\ main.pc = "raised" => main.exc = "EmptyDistributionError"

LeqFraction(p, q) == p.num * q.den <= q.num * p.den

\* C13: the cdf of a non-empty ascending sequence is non-decreasing in x, is 1
\* from the maximum on and 0 below the minimum
C13_CdfShape ==
    main.pc = "tabulated" =>
        LET v == main.sorted IN
        /\ main.x >= v[Len(v)] => main.cdf.num = main.cdf.den
        /\ main.x < v[1] => main.cdf.num = 0
        /\ \A y \in Queries :
              /\ y <= main.x => LeqFraction(cdf(v, y), main.cdf)
              /\ y >= main.x => LeqFraction(main.cdf, cdf(v, y))

\* a cdf strictly between 0 and 1 was computed at a value of the sequence
C13_Witness ==
    /\ main.pc = "tabulated"
    /\ \E i \in 1..Len(main.sorted) : main.sorted[i] = main.x
    /\ 0 < main.cdf.num /\ main.cdf.num < main.cdf.den

\* the largest changed value of a non-empty table
TrueMax(df) ==
    CHOOSE v \in { df[k].changed : k \in 1..Len(df) } :
        \A k \in 1..Len(df) : df[k].changed <= v

MinOf(x, y) == IF x <= y THEN x ELSE y

RangeSet(m) == m.pc \in {"hist", "plotted"}

FirstCommitLine(s) == CHOOSE i \in CommitLines(s) : \A j \in CommitLines(s) : i <= j

\* the stream from its first commit-identifier line on
FromFirstCommit(s) == SubSeq(s, FirstCommitLine(s), Len(s))

\* C15: the record emitted at the first commit-identifier line is not in the
\* returned table, the lines before that line contribute to no record, and a
\* stream without a commit-identifier line yields the empty table
C15_FalseRecordDropped ==
    Parsed =>
        /\ CommitLines(parse.stdout) = {} => parse.df = <<>>
        /\ Len(parse.df) = (IF parse.added = <<>> THEN 0 ELSE Len(parse.added) - 1)
        /\ \A k \in 1..Len(parse.df) :
              parse.df[k] = [added |-> parse.added[k + 1],
                             removed |-> parse.removed[k + 1],
                             changed |-> parse.changed[k + 1]]
        /\ CommitLines(parse.stdout) # {} =>
              parse.df = RunLoop(NewLoop(FromFirstCommit(parse.stdout))).df

\* a table with a record was returned for a stream that counts lines before
\* its first commit-identifier line
C15_Witness ==
    /\ Parsed /\ Len(parse.df) >= 1
    /\ Len(parse.stdout) > 0 /\ IsCountLine(parse.stdout[1])
    /\ parse.added[1] > 0

Sums(st) == <<st.a, st.r, st.c, st.added, st.removed, st.changed>>

FirstFieldDash(l) == ~fullmatch(l) /\ Len(split(l)) > 0 /\ split(l)[1] = DASH

\* an empty line, or a line whose first field is the binary marker
SkippedLine(l) == split(l) = <<>> \/ FirstFieldDash(l)

\* the loop stands at the boundary of a block opened at line h, all of whose
\* lines are skipped lines
AtBoundaryOfBinaryBlock ==
    /\ parse.pc = "for"
    /\ parse.i > Len(parse.stdout) \/ fullmatch(parse.stdout[parse.i])
    /\ \E h \in CommitLines(parse.stdout) :
          /\ h < parse.i
          /\ \A j \in (h + 1)..(parse.i - 1) : SkippedLine(parse.stdout[j])

\* C16: the iteration over an empty line or a line whose first field is the
\* binary marker changes neither the running sums nor the emitted records and
\* goes on to the next line, whatever the other fields are; a block of such
\* lines alone reaches its boundary with sums 0, 0, 0
C16_SkippedLinesChangeNothing ==
    /\ [][(AtLine /\ SkippedLine(Line))
            => (Sums(parse') = Sums(parse) /\ parse'.pc = "for"
                /\ parse'.i = parse.i + 1)]_vars
    /\ [](AtBoundaryOfBinaryBlock => (parse.a = 0 /\ parse.r = 0 /\ parse.c = 0))

\* a line with the marker in its first field and a count in its second was
\* passed with sums that are not 0
C16_Witness ==
    /\ parse.pc = "for" /\ parse.i > 1
    /\ FirstFieldDash(parse.stdout[parse.i - 1])
    /\ IsIntLiteral(split(parse.stdout[parse.i - 1])[2])
    /\ parse.a > 0 /\ parse.c > 0

(***************************************************************************)
(* What a call does to the cache store (SpecSeq)                           *)
(***************************************************************************)
\* the step is one of process p
Actor(p) == proc'[p] # proc[p]

\* C17: no step deletes an entry, a step of a call on the hit branch leaves
\* the cache store as it is, and a step of any call leaves every entry but
\* the one named by its own key as it is
C17_CacheFrame ==
    [][ /\ DOMAIN fs.files \subseteq DOMAIN fs'.files
        /\ \A p \in Procs : Actor(p) =>
              /\ proc[p].path = "hit" => fs' = fs
              /\ \A path \in DOMAIN fs'.files :
                    path # proc[p].cachefile =>
                        /\ path \in DOMAIN fs.files
                        /\ fs'.files[path] = fs.files[path]
        /\ (\A p \in Procs : ~Actor(p)) => fs' = fs ]_vars

\* after a miss that wrote a second entry, a call returned from the hit branch
\* with both entries in the store
C17_Witness ==
    /\ Cardinality(DOMAIN fs.files) >= 2
    /\ old.path = "miss" /\ old.pc = "returned"
    /\ cur.path = "hit" /\ cur.pc = "returned"

====
